---- MODULE Spec2Model ----
(***************************************************************************)
(* Model of telegram_upload/client.py: the Client transfer methods         *)
(* send_files, send_files_as_album, find_files, download_files and         *)
(* forward_to (Spec), the caption of send_files (SpecCaption), and         *)
(* parse_proxy_string with the proxy selection of Client.__init__          *)
(* (SpecProxy).  One call of one method is modelled per behaviour          *)
(* (variable op); every call the method makes on a collaborator (protocol  *)
(* client, progress bar, file system, console, environment) is appended to *)
(* the call trace log.                                                     *)
(***************************************************************************)
EXTENDS Integers, Sequences, FiniteSets, TLC

\* ---- bounds -------------------------------------------------------------
MaxFiles == 2      \* files the input iterable of send_files may yield
MaxSize == 2       \* largest byte size of a file or a document
MaxForward == 2    \* destinations in the forward option
MaxHistory == 4    \* messages in the conversation history
MaxFree == 3       \* free bytes on the download file system
MaxAlbumFiles == 25 \* files the input iterable of send_files_as_album may yield
MaxText == 210     \* longest caption or short name
MaxProxyLen == 5   \* tokens in a proxy string

\* ---- program constants -------------------------------------------------
CAPTION_MAX_LENGTH == 200
ALBUM_FILES == 10
\* the names of PROXY_ENVIRONMENT_VARIABLE_NAMES are numbered in list order:
\* 1 TELEGRAM_UPLOAD_PROXY, 2 HTTPS_PROXY, 3 HTTP_PROXY
PROXY_ENVIRONMENT_VARIABLE_NAMES == <<1, 2, 3>>

VARIABLES
    op,                 \* the Client method that was called
    pc,                 \* position inside that method
    delete_on_success,  \* option of send_files / download_files
    print_file_id,      \* option of send_files
    force_file,         \* option of send_files
    forward,            \* option of send_files: sequence of destinations
    idx,                \* send_files: number of files taken from the iterable
    has_files,          \* send_files: local has_files
    file,               \* send_files: local file (the current File)
    thumb,              \* send_files: local thumb ("none" or "path")
    message,            \* send_files: local message (send_file's result)
    fwd,                \* forward_to: destinations already served
    exc,                \* the exception in flight or raised ("none" if none)
    history,            \* the conversation, newest first
    fetched,            \* find_files: messages taken from iter_messages
    yielded,            \* find_files: messages yielded so far
    messages,           \* download_files: local messages (after reversed)
    didx,               \* download_files: position in messages
    free,               \* free bytes of the download file system
    log,                \* trace of the calls made on collaborators
    caption,            \* option of send_files: None or a text
    short_name,         \* file.short_name of the file whose caption is computed
    file_caption,       \* send_files: local file_caption
    proxy,              \* Client.__init__ / parse_proxy_string: local proxy
    environ,            \* os.environ at the proxy variable names
    result              \* what parse_proxy_string returned or raised

vars == <<op, pc, delete_on_success, print_file_id, force_file, forward, idx,
          has_files, file, thumb, message, fwd, exc, history, fetched,
          yielded, messages, didx, free, log, caption, short_name,
          file_caption, proxy, environ, result>>

\* the arguments of the call and its environment, which no step changes
optVars == <<op, delete_on_success, print_file_id, force_file, forward,
             caption, short_name, environ>>
\* the locals of the caption and proxy computations
pureVars == <<file_caption, proxy, result>>
sendVars == <<idx, has_files, file, thumb, message, fwd>>
dlVars == <<history, fetched, yielded, messages, didx, free>>

\* ---- values -------------------------------------------------------------
\* A File as send_files reads it: file_size, is_custom_thumbnail and whether
\* isinstance(file, File) holds.  Its path and file_name are its index.
File == [file_size : 1..MaxSize, is_custom_thumbnail : BOOLEAN, is_File : BOOLEAN]

NoFile == [file_size |-> 0, is_custom_thumbnail |-> FALSE, is_File |-> FALSE]

\* The Message send_file returns, reduced to its media: a document with a
\* size, a photo, or no media.
SentMessage == {[media |-> "document", size |-> s] : s \in 1..MaxSize}
               \cup {[media |-> "photo", size |-> 0], [media |-> "none", size |-> 0]}

NoMessage == [media |-> "unset", size |-> 0]

\* A message of the history: document is TRUE when it carries a document.
HistoryMessage == {[document |-> TRUE, size |-> s] : s \in 1..MaxSize}
                  \cup {[document |-> FALSE, size |-> 0]}

\* An optional text (a caption, a proxy string, an environment value): None
\* or a sequence of characters or tokens.
None == [is_None |-> TRUE, text |-> <<>>]

Some(t) == [is_None |-> FALSE, text |-> t]

\* What parse_proxy_string gave: kind is "None", "proxy", "TelegramProxyError"
\* or "ValueError" ("unset" before the call).
NoResult == [kind |-> "unset", type |-> <<>>, hostname |-> <<>>, port |-> 0]

SeqsUpTo(S, n) == UNION {[1..k -> S] : k \in 0..n}

\* One call on a collaborator: its name, the file or message it is about and
\* (for forward_messages) the destination.
Ev(e, i, a) == [ev |-> e, i |-> i, arg |-> a]

\* ---- pure helpers -------------------------------------------------------
DataLoss_unchecked(f, m) == FALSE

\* line 132: hasattr(message.media, 'document') and file.file_size != message.media.document.size
DataLoss(f, m) == m.media = "document" /\ f.file_size # m.size

\* line 139: the condition guarding os.remove(thumb)
RemovesThumb(t, f) == t # "none" /\ f.is_custom_thumbnail

\* line 143: pack_bot_file_id(message.media) is None unless the media is a document or a photo
pack_bot_file_id(m) == IF m.media \in {"document", "photo"} THEN "file_id" ELSE "None"

reversed_identity(s) == s

\* line 159: reversed(list(messages))
RECURSIVE reversed(_)
reversed(s) == IF s = <<>> THEN <<>> ELSE Append(reversed(Tail(s)), Head(s))

\* line 164: message.document.size > free_disk_usage()
NoSpace(size, avail) == size > avail

\* A text of n characters; its k-th character is k (of a caption) or -k (of
\* a short name).  The character "." is 0.
Text(sign, n) == [k \in 1..n |-> sign * k]

truncate_without_room(text, max_length) ==
    IF Len(text) > max_length
      THEN SubSeq(text, 1, max_length) \o <<0, 0, 0>>
      ELSE text

\* lines 53-54: (text[:max_length - 3] + '...') if len(text) > max_length else text
truncate(text, max_length) ==
    IF Len(text) > max_length
      THEN SubSeq(text, 1, max_length - 3) \o <<0, 0, 0>>
      ELSE text

\* ---- initial state ------------------------------------------------------
InitSend ==
    /\ op = "send_files"
    /\ pc = "for"
    /\ delete_on_success \in BOOLEAN
    /\ print_file_id \in BOOLEAN
    /\ force_file \in BOOLEAN
    /\ forward \in {[d \in 1..k |-> d] : k \in 0..MaxForward}
    /\ history = <<>>
    /\ free = 0

\* download_files(entity, find_files(entity), delete_on_success): the
\* messages argument is the lazy scan of the history
InitDownload ==
    /\ op = "download_files"
    /\ pc = "list"
    /\ delete_on_success \in BOOLEAN
    /\ print_file_id = FALSE
    /\ force_file = FALSE
    /\ forward = <<>>
    /\ history \in SeqsUpTo(HistoryMessage, MaxHistory)
    /\ free \in 0..MaxFree

\* send_files_as_album(entity, files, ...): idx counts the files taken so far
InitAlbum ==
    /\ op = "send_files_as_album"
    /\ pc = "album_for"
    /\ delete_on_success \in BOOLEAN
    /\ print_file_id \in BOOLEAN
    /\ force_file = FALSE
    /\ forward \in {[d \in 1..k |-> d] : k \in 0..MaxForward}
    /\ history = <<>>
    /\ free = 0

\* the variables of the caption and proxy computations, unused by the
\* transfer methods
InitPure ==
    /\ caption = None
    /\ short_name = <<>>
    /\ file_caption = <<>>
    /\ proxy = None
    /\ environ = [k \in 1..3 |-> None]
    /\ result = NoResult

InitLocals ==
    /\ idx = 0
    /\ has_files = FALSE
    /\ file = NoFile
    /\ thumb = "none"
    /\ message = NoMessage
    /\ fwd = 0
    /\ exc = "none"
    /\ fetched = 0
    /\ yielded = <<>>
    /\ messages = <<>>
    /\ didx = 0
    /\ log = <<>>

Init ==
    /\ InitLocals
    /\ InitPure
    /\ (InitSend \/ InitDownload \/ InitAlbum)

\* ---- send_files ---------------------------------------------------------
send_files_for_skips_a_file ==
    /\ op = "send_files" /\ pc = "for"
    /\ idx + 1 < MaxFiles
    /\ \E f \in File : file' = f
    /\ idx' = idx + 2
    /\ has_files' = TRUE
    /\ fwd' = 0
    /\ log' = Append(log, Ev("get_progress_bar", idx + 2, 0))
    /\ pc' = "get_thumbnail"
    /\ UNCHANGED <<optVars, pureVars, thumb, message, dlVars, exc>>

\* lines 117-120: the iterable yields a file; the progress bar is opened
send_files_for ==
    /\ op = "send_files" /\ pc = "for"
    /\ idx < MaxFiles
    /\ \E f \in File : file' = f
    /\ idx' = idx + 1
    /\ has_files' = TRUE
    /\ fwd' = 0
    /\ log' = Append(log, Ev("get_progress_bar", idx + 1, 0))
    /\ pc' = "get_thumbnail"
    /\ UNCHANGED <<optVars, pureVars, thumb, message, dlVars, exc>>

send_files_end_ignores_has_files ==
    /\ op = "send_files" /\ pc = "for"
    /\ pc' = "raised" /\ exc' = "MissingFileError"
    /\ UNCHANGED <<optVars, pureVars, sendVars, dlVars, log>>

\* lines 117, 148-149: the iterable is exhausted
send_files_end ==
    /\ op = "send_files" /\ pc = "for"
    /\ IF has_files
         THEN pc' = "return" /\ exc' = exc
         ELSE pc' = "raised" /\ exc' = "MissingFileError"
    /\ UNCHANGED <<optVars, pureVars, sendVars, dlVars, log>>

\* line 121: thumb = file.get_thumbnail(), outside every try block
send_files_get_thumbnail ==
    /\ op = "send_files" /\ pc = "get_thumbnail"
    /\ \E r \in {"none", "path", "raise"} :
         IF r = "raise"
           THEN /\ exc' = "TelegramInvalidFile"
                /\ pc' = "raised"
                /\ thumb' = thumb
           ELSE /\ thumb' = r
                /\ pc' = "attributes"
                /\ exc' = exc
    /\ UNCHANGED <<optVars, pureVars, idx, has_files, file, message, fwd, dlVars, log>>

\* lines 122-126: inside the outer try only; get_file_attributes may raise
send_files_attributes ==
    /\ op = "send_files" /\ pc = "attributes"
    /\ IF force_file \/ file.is_File
         THEN pc' = "send_file" /\ exc' = exc
         ELSE \E ok \in BOOLEAN :
                IF ok THEN pc' = "send_file" /\ exc' = exc
                      ELSE pc' = "finally_thumb" /\ exc' = "Exception"
    /\ UNCHANGED <<optVars, pureVars, sendVars, dlVars, log>>

\* lines 128-135: send_file returns a message or raises; then the size check
send_files_send_file ==
    /\ op = "send_files" /\ pc = "send_file"
    /\ log' = Append(log, Ev("send_file", idx, 0))
    /\ \/ /\ exc' = "ProtocolError"
          /\ message' = message
       \/ \E m \in SentMessage :
            /\ message' = m
            /\ exc' = IF DataLoss(file, m) THEN "TelegramUploadDataLoss" ELSE exc
    /\ pc' = "finally_bar"
    /\ UNCHANGED <<optVars, pureVars, idx, has_files, file, thumb, fwd, dlVars>>

send_files_render_finish_no_finally ==
    /\ op = "send_files" /\ pc = "finally_bar"
    /\ log' = IF exc = "none" THEN Append(log, Ev("render_finish", idx, 0)) ELSE log
    /\ pc' = "finally_thumb"
    /\ UNCHANGED <<optVars, pureVars, sendVars, dlVars, exc>>

\* lines 136-137: finally: bar.render_finish()
send_files_render_finish ==
    /\ op = "send_files" /\ pc = "finally_bar"
    /\ log' = Append(log, Ev("render_finish", idx, 0))
    /\ pc' = "finally_thumb"
    /\ UNCHANGED <<optVars, pureVars, sendVars, dlVars, exc>>

send_files_remove_thumb_continues ==
    /\ op = "send_files" /\ pc = "finally_thumb"
    /\ log' = IF RemovesThumb(thumb, file)
                THEN Append(log, Ev("remove_thumb", idx, 0))
                ELSE log
    /\ pc' = IF exc # "none" THEN "for" ELSE "print_file_id"
    /\ exc' = "none"
    /\ UNCHANGED <<optVars, pureVars, sendVars, dlVars>>

\* lines 138-140: finally: os.remove(thumb) under its condition; a pending
\* exception then leaves send_files
send_files_remove_thumb ==
    /\ op = "send_files" /\ pc = "finally_thumb"
    /\ log' = IF RemovesThumb(thumb, file)
                THEN Append(log, Ev("remove_thumb", idx, 0))
                ELSE log
    /\ pc' = IF exc # "none" THEN "raised" ELSE "print_file_id"
    /\ UNCHANGED <<optVars, pureVars, sendVars, dlVars, exc>>

\* lines 141-143: the completion line with pack_bot_file_id(message.media)
send_files_print_file_id ==
    /\ op = "send_files" /\ pc = "print_file_id"
    /\ log' = IF print_file_id
                THEN Append(log, Ev("echo_" \o pack_bot_file_id(message), idx, 0))
                ELSE log
    /\ pc' = "delete"
    /\ UNCHANGED <<optVars, pureVars, sendVars, dlVars, exc>>

\* lines 144-146: os.remove(file.path)
send_files_delete ==
    /\ op = "send_files" /\ pc = "delete"
    /\ log' = IF delete_on_success
                THEN Append(log, Ev("remove_file", idx, 0))
                ELSE log
    /\ pc' = "forward_to"
    /\ UNCHANGED <<optVars, pureVars, sendVars, dlVars, exc>>

forward_to_catches ==
    /\ op = "send_files" /\ pc = "forward_to"
    /\ IF fwd < Len(forward)
         THEN /\ fwd' = fwd + 1
              /\ log' = Append(log, Ev("forward_messages", idx, forward[fwd + 1]))
              /\ \/ pc' = pc /\ exc' = exc
                 \/ pc' = pc /\ exc' = "ProtocolError"
              /\ UNCHANGED <<file, thumb, message>>
         ELSE /\ pc' = "for"
              /\ file' = NoFile
              /\ thumb' = "none"
              /\ message' = NoMessage
              /\ UNCHANGED <<fwd, log, exc>>
    /\ UNCHANGED <<optVars, pureVars, idx, has_files, dlVars>>

\* lines 147, 178-180: forward_to: one forward_messages call per destination,
\* in order; a call that raises leaves send_files.  When the iteration ends
\* its locals are dead (each is assigned again before it is read) and are
\* cleared.
forward_to ==
    /\ op = "send_files" /\ pc = "forward_to"
    /\ IF fwd < Len(forward)
         THEN /\ fwd' = fwd + 1
              /\ log' = Append(log, Ev("forward_messages", idx, forward[fwd + 1]))
              /\ \/ pc' = pc /\ exc' = exc
                 \/ pc' = "raised" /\ exc' = "ProtocolError"
              /\ UNCHANGED <<file, thumb, message>>
         ELSE /\ pc' = "for"
              /\ file' = NoFile
              /\ thumb' = "none"
              /\ message' = NoMessage
              /\ UNCHANGED <<fwd, log, exc>>
    /\ UNCHANGED <<optVars, pureVars, idx, has_files, dlVars>>

\* ---- find_files ---------------------------------------------------------
find_files_continue ==
    /\ op = "download_files" /\ pc = "list"
    /\ IF fetched < Len(history)
         THEN /\ fetched' = fetched + 1
              /\ log' = Append(log, Ev("iter_messages", fetched + 1, 0))
              /\ yielded' = IF history[fetched + 1].document
                               THEN Append(yielded, fetched + 1)
                               ELSE yielded
              /\ pc' = pc
         ELSE /\ pc' = "reversed"
              /\ UNCHANGED <<fetched, yielded, log>>
    /\ UNCHANGED <<optVars, pureVars, sendVars, history, messages, didx, free, exc>>

find_files_lazy ==
    /\ op = "download_files" /\ pc = "list"
    /\ IF fetched < Len(history)
         THEN /\ fetched' = fetched + 1
              /\ log' = Append(log, Ev("iter_messages", fetched + 1, 0))
              /\ yielded' = IF history[fetched + 1].document
                               THEN Append(yielded, fetched + 1)
                               ELSE yielded
              /\ pc' = "reversed"
         ELSE /\ pc' = "reversed"
              /\ UNCHANGED <<fetched, yielded, log>>
    /\ UNCHANGED <<optVars, pureVars, sendVars, history, messages, didx, free, exc>>

\* lines 152-156, driven by list(messages) of line 159: one step of the scan
\* takes the next message from iter_messages and yields it or breaks
find_files ==
    /\ op = "download_files" /\ pc = "list"
    /\ IF fetched < Len(history)
         THEN /\ fetched' = fetched + 1
              /\ log' = Append(log, Ev("iter_messages", fetched + 1, 0))
              /\ IF history[fetched + 1].document
                   THEN yielded' = Append(yielded, fetched + 1) /\ pc' = pc
                   ELSE yielded' = yielded /\ pc' = "reversed"
         ELSE /\ pc' = "reversed"
              /\ UNCHANGED <<fetched, yielded, log>>
    /\ UNCHANGED <<optVars, pureVars, sendVars, history, messages, didx, free, exc>>

\* ---- download_files -----------------------------------------------------
\* line 159: messages = reversed(list(messages))
download_files_reversed ==
    /\ op = "download_files" /\ pc = "reversed"
    /\ messages' = reversed(yielded)
    /\ pc' = "dl_for"
    /\ UNCHANGED <<optVars, pureVars, sendVars, history, fetched, yielded, didx, free, exc, log>>

\* line 160: for message in messages
download_files_for ==
    /\ op = "download_files" /\ pc = "dl_for"
    /\ IF didx < Len(messages)
         THEN didx' = didx + 1 /\ pc' = "free_disk_usage"
         ELSE didx' = didx /\ pc' = "return"
    /\ UNCHANGED <<optVars, pureVars, sendVars, history, fetched, yielded, messages, free, exc, log>>

download_files_free_disk_usage_first_only ==
    /\ op = "download_files" /\ pc = "free_disk_usage"
    /\ IF didx = 1 /\ NoSpace(history[messages[didx]].size, free)
         THEN pc' = "raised" /\ exc' = "TelegramUploadNoSpaceError"
         ELSE pc' = "dl_progress_bar" /\ exc' = exc
    /\ UNCHANGED <<optVars, pureVars, sendVars, dlVars, log>>

\* lines 161-169: the free-space check of the current message
download_files_free_disk_usage ==
    /\ op = "download_files" /\ pc = "free_disk_usage"
    /\ IF NoSpace(history[messages[didx]].size, free)
         THEN pc' = "raised" /\ exc' = "TelegramUploadNoSpaceError"
         ELSE pc' = "dl_progress_bar" /\ exc' = exc
    /\ UNCHANGED <<optVars, pureVars, sendVars, dlVars, log>>

\* line 170: the progress bar is opened
download_files_get_progress_bar ==
    /\ op = "download_files" /\ pc = "dl_progress_bar"
    /\ log' = Append(log, Ev("get_progress_bar", messages[didx], 0))
    /\ pc' = "download_media"
    /\ UNCHANGED <<optVars, pureVars, sendVars, dlVars, exc>>

\* lines 171-172: download_media writes the document or raises
download_files_download_media ==
    /\ op = "download_files" /\ pc = "download_media"
    /\ log' = Append(log, Ev("download_media", messages[didx], 0))
    /\ \/ /\ free' = IF free >= history[messages[didx]].size
                       THEN free - history[messages[didx]].size
                       ELSE 0
          /\ exc' = exc
       \/ /\ free' = free
          /\ exc' = "ProtocolError"
    /\ pc' = "dl_finally_bar"
    /\ UNCHANGED <<optVars, pureVars, sendVars, history, fetched, yielded, messages, didx>>

download_files_render_finish_swallows ==
    /\ op = "download_files" /\ pc = "dl_finally_bar"
    /\ log' = Append(log, Ev("render_finish", messages[didx], 0))
    /\ pc' = "delete_messages"
    /\ UNCHANGED <<optVars, pureVars, sendVars, dlVars, exc>>

\* lines 173-174: finally: bar.render_finish()
download_files_render_finish ==
    /\ op = "download_files" /\ pc = "dl_finally_bar"
    /\ log' = Append(log, Ev("render_finish", messages[didx], 0))
    /\ pc' = IF exc # "none" THEN "raised" ELSE "delete_messages"
    /\ UNCHANGED <<optVars, pureVars, sendVars, dlVars, exc>>

\* lines 175-176: delete_messages under delete_on_success; it may raise
download_files_delete_messages ==
    /\ op = "download_files" /\ pc = "delete_messages"
    /\ IF delete_on_success
         THEN /\ log' = Append(log, Ev("delete_messages", messages[didx], 0))
              /\ \/ pc' = "dl_for" /\ exc' = exc
                 \/ pc' = "raised" /\ exc' = "ProtocolError"
         ELSE /\ pc' = "dl_for"
              /\ UNCHANGED <<log, exc>>
    /\ UNCHANGED <<optVars, pureVars, sendVars, dlVars>>

\* ---- send_files_as_album ------------------------------------------------
\* utils.grouper(n, iterable): the sizes the next group can have.  A group
\* takes up to n files from the iterable; a short group means the iterable
\* is exhausted, and an empty one ends the grouping.
grouper(n, p) ==
    IF p = "album_exhausted" THEN {0}
    ELSE {g \in 0..n : idx + g <= MaxAlbumFiles}

send_files_as_album_wrong_size ==
    /\ op = "send_files_as_album" /\ pc \in {"album_for", "album_exhausted"}
    /\ \E g \in grouper(ALBUM_FILES + 1, pc) :
         IF g = 0
           THEN /\ pc' = "return"
                /\ UNCHANGED <<idx, log, exc>>
           ELSE /\ idx' = idx + g
                /\ log' = Append(log, Ev("_send_album", idx + 1, g))
                /\ \/ /\ pc' = IF g < ALBUM_FILES + 1 THEN "album_exhausted" ELSE "album_for"
                      /\ exc' = exc
                   \/ /\ pc' = "raised"
                      /\ exc' = "ProtocolError"
    /\ UNCHANGED <<optVars, pureVars, has_files, file, thumb, message, fwd, dlVars>>

send_files_as_album_with_side_effects ==
    /\ op = "send_files_as_album" /\ pc \in {"album_for", "album_exhausted"}
    /\ \E g \in grouper(ALBUM_FILES, pc) :
         IF g = 0
           THEN /\ pc' = "return"
                /\ UNCHANGED <<idx, log, exc>>
           ELSE /\ idx' = idx + g
                /\ log' = IF delete_on_success
                            THEN log \o <<Ev("_send_album", idx + 1, g), Ev("remove_file", idx + 1, g)>>
                            ELSE Append(log, Ev("_send_album", idx + 1, g))
                /\ \/ /\ pc' = IF g < ALBUM_FILES THEN "album_exhausted" ELSE "album_for"
                      /\ exc' = exc
                   \/ /\ pc' = "raised"
                      /\ exc' = "ProtocolError"
    /\ UNCHANGED <<optVars, pureVars, has_files, file, thumb, message, fwd, dlVars>>

\* lines 111-112: one step of the loop: the next group is taken and sent with
\* _send_album(entity, files_group), which may raise; no other call is made
send_files_as_album ==
    /\ op = "send_files_as_album" /\ pc \in {"album_for", "album_exhausted"}
    /\ \E g \in grouper(ALBUM_FILES, pc) :
         IF g = 0
           THEN /\ pc' = "return"
                /\ UNCHANGED <<idx, log, exc>>
           ELSE /\ idx' = idx + g
                /\ log' = Append(log, Ev("_send_album", idx + 1, g))
                /\ \/ /\ pc' = IF g < ALBUM_FILES THEN "album_exhausted" ELSE "album_for"
                      /\ exc' = exc
                   \/ /\ pc' = "raised"
                      /\ exc' = "ProtocolError"
    /\ UNCHANGED <<optVars, pureVars, has_files, file, thumb, message, fwd, dlVars>>

\* ---- the caption of send_files ------------------------------------------
\* send_files(entity, [file], caption=caption) up to line 120, for a file
\* with the given short_name
InitCaption ==
    /\ InitLocals
    /\ op = "send_files" /\ pc = "caption"
    /\ delete_on_success = FALSE /\ print_file_id = FALSE /\ force_file = FALSE
    /\ forward = <<>> /\ history = <<>> /\ free = 0
    /\ \/ /\ caption = None
          /\ short_name \in {Text(-1, n) : n \in 0..MaxText}
       \/ /\ caption \in {Some(Text(1, n)) : n \in 0..MaxText}
          /\ short_name \in {Text(-1, 1), Text(-1, MaxText)}
    /\ file_caption = <<>>
    /\ proxy = None
    /\ environ = [k \in 1..3 |-> None]
    /\ result = NoResult

\* line 120: file_caption = truncate(caption if caption is not None else
\* file.short_name, CAPTION_MAX_LENGTH); lines 128-131 pass it to send_file
send_files_caption ==
    /\ op = "send_files" /\ pc = "caption"
    /\ file_caption' = truncate(IF ~caption.is_None THEN caption.text ELSE short_name,
                                CAPTION_MAX_LENGTH)
    /\ pc' = "caption_done"
    /\ UNCHANGED <<optVars, sendVars, dlVars, exc, log, proxy, result>>

NextCaption == send_files_caption

SpecCaption == InitCaption /\ [][NextCaption]_vars

\* ---- proxy strings ------------------------------------------------------
\* A proxy string is a sequence of tokens: words (made of letters and
\* digits; "1080" of digits only) and the separators "://" and ":".
Word == {"mtproxy", "socks5", "ftp", "host", "1080"}
Separator == {"://", ":"}
Token == Word \cup Separator

\* the positions of t holding a token of S, and the first of them (0 if none)
Positions(t, S) == {k \in 1..Len(t) : t[k] \in S}

First(t, S) ==
    IF Positions(t, S) = {} THEN 0
    ELSE CHOOSE k \in Positions(t, S) : \A j \in Positions(t, S) : k <= j

\* line 66: urlparse(proxy), as urllib.parse splits the string.  The scheme
\* is the text before the first ":" when it starts with a letter; the netloc
\* follows "//" and ends before the next "/"; hostname and port text are the
\* parts of the netloc before and after its first ":".
urlparse(t) ==
    LET i == First(t, Separator)
        scheme == IF i > 1 /\ t[1] # "1080" THEN SubSeq(t, 1, i - 1) ELSE <<>>
        rest == IF scheme # <<>> /\ t[i] = "://" THEN SubSeq(t, i + 1, Len(t)) ELSE <<>>
        j == First(rest, {"://"})
        netloc == IF j = 0 THEN rest ELSE Append(SubSeq(rest, 1, j - 1), ":")
        k == First(netloc, {":"})
    IN [scheme |-> scheme,
        hostname |-> IF k = 0 THEN netloc ELSE SubSeq(netloc, 1, k - 1),
        port_text |-> IF k = 0 THEN <<>> ELSE SubSeq(netloc, k + 1, Len(netloc))]

\* the number a text of "1080" tokens reads as
RECURSIVE Digits(_)
Digits(w) == IF w = <<>> THEN 0 ELSE Digits(SubSeq(w, 1, Len(w) - 1)) * 10000 + 1080

\* line 67: proxy_parsed.port: None without port text, an int when the text
\* is a number of 0..65535, else ValueError
port(u) ==
    IF u.port_text = <<>> THEN [kind |-> "None", value |-> 0]
    ELSE IF \A k \in 1..Len(u.port_text) : u.port_text[k] = "1080"
      THEN IF Digits(u.port_text) <= 65535
             THEN [kind |-> "int", value |-> Digits(u.port_text)]
             ELSE [kind |-> "ValueError", value |-> 0]
      ELSE [kind |-> "ValueError", value |-> 0]

Raised(kind) == [kind |-> kind, type |-> <<>>, hostname |-> <<>>, port |-> 0]

\* lines 76-80: the schemes of the proxy_type dictionary
SocksSchemes == {<<"http">>, <<"socks4">>, <<"socks5">>}

\* lines 63-84: parse_proxy_string(proxy); socks tells whether import socks works
parse_proxy_string(p, socks) ==
    IF p.is_None \/ p.text = <<>> THEN Raised("None")
    ELSE LET u == urlparse(p.text) IN
      IF u.scheme = <<>> \/ u.hostname = <<>> THEN Raised("TelegramProxyError")
      ELSE IF port(u).kind = "ValueError" THEN Raised("ValueError")
      ELSE IF port(u).kind = "None" \/ port(u).value = 0 THEN Raised("TelegramProxyError")
      ELSE IF u.scheme = <<"mtproxy">>
        THEN [kind |-> "proxy", type |-> u.scheme, hostname |-> u.hostname,
              port |-> port(u).value]
      ELSE IF ~socks THEN Raised("TelegramProxyError")
      ELSE IF u.scheme \notin SocksSchemes THEN Raised("TelegramProxyError")
      ELSE [kind |-> "proxy", type |-> u.scheme, hostname |-> u.hostname,
            port |-> port(u).value]

\* the values given to Client.__init__ and to the environment variables
ProxyValue ==
    {None, Some(<<>>),
     Some(<<"mtproxy", "://", "host", ":", "1080">>),
     Some(<<"socks5", "://", "host", ":", "1080">>),
     Some(<<"socks5", "://", "host">>)}

get_proxy_environment_variable_last_wins(env) ==
    IF \A k \in 1..3 : env[k].is_None THEN None
    ELSE env[CHOOSE k \in 1..3 : ~env[k].is_None /\ \A j \in (k + 1)..3 : env[j].is_None]

\* lines 57-60: the value of the first name of the list that is in os.environ
get_proxy_environment_variable(env) ==
    IF \A k \in 1..3 : env[PROXY_ENVIRONMENT_VARIABLE_NAMES[k]].is_None THEN None
    ELSE LET k == CHOOSE n \in 1..3 :
                    /\ ~env[PROXY_ENVIRONMENT_VARIABLE_NAMES[n]].is_None
                    /\ \A j \in 1..(n - 1) : env[PROXY_ENVIRONMENT_VARIABLE_NAMES[j]].is_None
         IN env[PROXY_ENVIRONMENT_VARIABLE_NAMES[k]]

\* the names get_proxy_environment_variable looks up in os.environ
Consulted(env) ==
    {n \in 1..3 : \A j \in 1..(n - 1) : env[PROXY_ENVIRONMENT_VARIABLE_NAMES[j]].is_None}

InitProxy ==
    /\ InitLocals
    /\ delete_on_success = FALSE /\ print_file_id = FALSE /\ force_file = FALSE
    /\ forward = <<>> /\ history = <<>> /\ free = 0
    /\ caption = None /\ short_name = <<>> /\ file_caption = <<>>
    /\ result = NoResult
    /\ \/ /\ op = "parse_proxy_string" /\ pc = "parse"
          /\ proxy \in {None} \cup {Some(t) : t \in SeqsUpTo(Token, MaxProxyLen)}
          /\ environ = [k \in 1..3 |-> None]
       \/ /\ op = "Client.__init__" /\ pc = "select"
          /\ proxy \in ProxyValue
          /\ environ \in [1..3 -> ProxyValue]

\* line 91: proxy = proxy if proxy is not None else get_proxy_environment_variable()
Client_init_select ==
    /\ op = "Client.__init__" /\ pc = "select"
    /\ IF ~proxy.is_None
         THEN proxy' = proxy /\ log' = log
         ELSE /\ proxy' = get_proxy_environment_variable(environ)
              /\ log' = [n \in 1..Cardinality(Consulted(environ)) |-> Ev("os.environ", n, 0)]
    /\ pc' = "parse"
    /\ UNCHANGED <<optVars, sendVars, dlVars, exc, file_caption, result>>

\* line 92 (and the call of parse_proxy_string on its own): lines 63-84
parse_proxy_string_call ==
    /\ op \in {"Client.__init__", "parse_proxy_string"} /\ pc = "parse"
    /\ \E socks \in BOOLEAN : result' = parse_proxy_string(proxy, socks)
    /\ exc' = IF result'.kind \in {"TelegramProxyError", "ValueError"} THEN result'.kind ELSE exc
    /\ pc' = IF result'.kind \in {"TelegramProxyError", "ValueError"} THEN "raised" ELSE "return"
    /\ UNCHANGED <<optVars, sendVars, dlVars, log, file_caption, proxy>>

NextProxy ==
    \/ Client_init_select
    \/ parse_proxy_string_call

SpecProxy == InitProxy /\ [][NextProxy]_vars

Next ==
    \/ send_files_for
    \/ send_files_end
    \/ send_files_get_thumbnail
    \/ send_files_attributes
    \/ send_files_send_file
    \/ send_files_render_finish
    \/ send_files_remove_thumb
    \/ send_files_print_file_id
    \/ send_files_delete
    \/ forward_to
    \/ find_files
    \/ download_files_reversed
    \/ download_files_for
    \/ download_files_free_disk_usage
    \/ download_files_get_progress_bar
    \/ download_files_download_media
    \/ download_files_render_finish
    \/ download_files_delete_messages
    \/ send_files_as_album

Spec == Init /\ [][Next]_vars

\* ---- reading the call trace ---------------------------------------------
Events(e, i) == {k \in DOMAIN log : log[k].ev = e /\ log[k].i = i}

Called(e, i) == Events(e, i) # {}

\* the calls send_files makes for a file once its upload is confirmed
SideEffect == {"echo_file_id", "echo_None", "remove_file", "forward_messages"}

SideEffects(i) == {k \in DOMAIN log : log[k].ev \in SideEffect /\ log[k].i = i}

\* positions of send_files at which the locals of the current file are live
InUnit == {"get_thumbnail", "attributes", "send_file", "finally_bar",
           "finally_thumb", "print_file_id", "delete", "forward_to"}

\* ---- C1 -----------------------------------------------------------------
\* C1: in send_files the local delete, the id report and the forwards of a
\* file happen only after send_file returned for it and the size check
\* passed; when the returned document size differs from file_size the unit
\* fails with TelegramUploadDataLoss and none of them is performed.
C1_SideEffectsOnlyAfterVerifiedSend ==
    op = "send_files" =>
      /\ \A k \in DOMAIN log :
           log[k].ev \in SideEffect =>
             /\ (k = Len(log) => log[k].i = idx)
             /\ \E j \in 1..(k - 1) : log[j].ev = "send_file" /\ log[j].i = log[k].i
             /\ \E j \in 1..(k - 1) : log[j].ev = "render_finish" /\ log[j].i = log[k].i
      /\ (pc \in InUnit \cup {"raised"} /\ SideEffects(idx) # {}) =>
           /\ message \in SentMessage
           /\ (message.media = "document" => message.size = file.file_size)
      /\ (message.media = "document" /\ message.size # file.file_size) =>
           /\ exc = "TelegramUploadDataLoss"
           /\ pc \in {"finally_bar", "finally_thumb", "raised"}
           /\ SideEffects(idx) = {}

C1_Witness ==
    /\ op = "send_files" /\ pc = "raised" /\ exc = "TelegramUploadDataLoss"
    /\ delete_on_success /\ print_file_id /\ Len(forward) > 0
    /\ idx = 2 /\ SideEffects(1) # {} /\ SideEffects(2) = {}

\* ---- C2 -----------------------------------------------------------------
\* C2: send_files fails with MissingFileError exactly when the file sequence
\* yielded no file, and then it has made no call at all.
C2_MissingFileOnlyWhenEmpty ==
    op = "send_files" =>
      /\ (exc = "MissingFileError" => idx = 0 /\ pc = "raised" /\ log = <<>>)
      /\ (idx = 0 /\ pc # "for" => exc = "MissingFileError" /\ pc = "raised" /\ log = <<>>)

C2_Witness == op = "send_files" /\ exc = "MissingFileError" /\ pc = "raised"

\* ---- C3 -----------------------------------------------------------------
\* every call send_files owes file j has been made before position k of the trace
UnitComplete(j, k) ==
    /\ \E n \in 1..(k - 1) : log[n].ev = "send_file" /\ log[n].i = j
    /\ \E n \in 1..(k - 1) : log[n].ev = "render_finish" /\ log[n].i = j
    /\ print_file_id =>
         \E n \in 1..(k - 1) : log[n].ev \in {"echo_file_id", "echo_None"} /\ log[n].i = j
    /\ delete_on_success =>
         \E n \in 1..(k - 1) : log[n].ev = "remove_file" /\ log[n].i = j
    /\ \A d \in 1..Len(forward) :
         \E n \in 1..(k - 1) :
           log[n].ev = "forward_messages" /\ log[n].i = j /\ log[n].arg = forward[d]

\* C3: send_files sends the files in input order, one at a time: file i is
\* sent once, after every earlier file has been sent and all its side
\* effects have completed, and no call about an earlier file follows.
C3_SendsInInputOrderOneAtATime ==
    op = "send_files" =>
      \A k \in DOMAIN log :
        log[k].ev = "send_file" =>
          /\ \A j \in 1..(log[k].i - 1) : UnitComplete(j, k)
          /\ \A n \in DOMAIN log : n > k => log[n].i = log[k].i \/ log[n].i > log[k].i
          /\ Events("send_file", log[k].i) = {k}

C3_Witness ==
    /\ op = "send_files" /\ pc = "return" /\ idx = MaxFiles
    /\ print_file_id /\ delete_on_success /\ Len(forward) = MaxForward
    /\ \A i \in 1..MaxFiles : Called("send_file", i)

\* ---- C4 -----------------------------------------------------------------
TransferCall == IF op = "send_files" THEN "send_file" ELSE "download_media"

\* C4: the progress bar opened around a transfer call (send_file,
\* download_media) is finished exactly once, whether the call returned or
\* raised, and also when the size check raised TelegramUploadDataLoss.
C4_FinishExactlyOnceAroundTransfer ==
    \A i \in 1..(MaxFiles + MaxHistory) :
      /\ Cardinality(Events("render_finish", i)) <= 1
      /\ \A k \in Events("render_finish", i) :
           /\ \E j \in 1..(k - 1) : log[j].ev = "get_progress_bar" /\ log[j].i = i
           /\ \E j \in 1..(k - 1) : log[j].ev = TransferCall /\ log[j].i = i
      /\ (Called(TransferCall, i) /\ pc \notin {"finally_bar", "dl_finally_bar"}) =>
           Cardinality(Events("render_finish", i)) = 1

C4_Witness ==
    /\ op = "send_files" /\ pc = "raised"
    /\ exc \in {"ProtocolError", "TelegramUploadDataLoss"}
    /\ Called("send_file", idx) /\ SideEffects(idx) = {}
    /\ Cardinality(Events("render_finish", idx)) = 1

\* ---- C5 -----------------------------------------------------------------
\* C5: every progress bar send_files opened is finished on every exit path
\* of the file's unit, also when get_thumbnail or get_file_attributes raises
\* before the send.
C5_EveryOpenedBarFinished ==
    (op = "send_files" /\ pc \in {"raised", "return"}) =>
      \A i \in 1..idx : Called("get_progress_bar", i) => Called("render_finish", i)

\* ---- C6 -----------------------------------------------------------------
\* C6: send_files never removes the thumbnail of a file whose thumbnail was
\* supplied by the caller (is_custom_thumbnail).
C6_CustomThumbnailNeverRemoved ==
    (op = "send_files" /\ pc \in InUnit \cup {"raised"} /\ file.is_custom_thumbnail) =>
      ~Called("remove_thumb", idx)

\* ---- C7 -----------------------------------------------------------------
\* C7: a thumbnail the engine generated (thumb present, not
\* is_custom_thumbnail) has been removed, after render_finish, once the
\* cleanup of the file's send attempt is over.
C7_GeneratedThumbnailRemoved ==
    (/\ op = "send_files"
     /\ pc \in {"print_file_id", "delete", "forward_to", "raised"}
     /\ thumb = "path" /\ ~file.is_custom_thumbnail) =>
      \E k \in Events("remove_thumb", idx) :
        Called("send_file", idx) =>
          \E j \in 1..(k - 1) : log[j].ev = "render_finish" /\ log[j].i = idx

\* ---- C8 -----------------------------------------------------------------
\* the length of the longest prefix of the history made of documents only
LeadingDocuments ==
    Cardinality({k \in 1..Len(history) : \A j \in 1..k : history[j].document})

\* C8: find_files yields exactly the leading run of document messages, in
\* delivered order, and takes no message from iter_messages beyond the
\* first one without a document.
C8_FindFilesYieldsLeadingRun ==
    op = "download_files" =>
      /\ fetched <= LeadingDocuments + 1
      /\ fetched <= Len(history)
      /\ Len(yielded) <= LeadingDocuments
      /\ \A k \in 1..Len(yielded) : yielded[k] = k
      /\ \A k \in 1..Len(log) : k <= fetched => log[k] = Ev("iter_messages", k, 0)
      /\ Cardinality({k \in DOMAIN log : log[k].ev = "iter_messages"}) = fetched
      /\ pc # "list" =>
           /\ Len(yielded) = LeadingDocuments
           /\ fetched = IF LeadingDocuments < Len(history)
                          THEN LeadingDocuments + 1
                          ELSE Len(history)

C8_Witness ==
    /\ op = "download_files" /\ pc # "list"
    /\ Len(history) = 4
    /\ history[1].document /\ history[2].document
    /\ ~history[3].document /\ history[4].document
    /\ yielded = <<1, 2>> /\ fetched = 3

\* ---- C9 -----------------------------------------------------------------
\* the messages of the download_media calls made so far, in call order
RECURSIVE Downloaded(_)
Downloaded(k) ==
    IF k = 0 THEN <<>>
    ELSE IF log[k].ev = "download_media"
           THEN Append(Downloaded(k - 1), log[k].i)
           ELSE Downloaded(k - 1)

\* C9: download_files downloads the messages in the reverse of the order
\* received, one at a time: the n-th download is of the n-th message from
\* the end, and it starts only after the previous message's download,
\* render_finish and (under delete_on_success) delete_messages.
C9_DownloadsInReverseOrder ==
    op = "download_files" =>
      LET d == Downloaded(Len(log)) IN
        /\ Len(d) <= Len(yielded)
        /\ \A n \in 1..Len(d) : d[n] = yielded[Len(yielded) + 1 - n]
        /\ \A k \in DOMAIN log :
             (log[k].ev = "download_media" /\ Len(Downloaded(k)) > 1) =>
               LET prev == Downloaded(k)[Len(Downloaded(k)) - 1] IN
                 /\ \E j \in 1..(k - 1) : log[j] = Ev("render_finish", prev, 0)
                 /\ delete_on_success =>
                      \E j \in 1..(k - 1) : log[j] = Ev("delete_messages", prev, 0)

C9_Witness ==
    /\ op = "download_files" /\ pc = "return"
    /\ Len(yielded) = 3
    /\ Downloaded(Len(log)) = <<3, 2, 1>>

\* ---- C10 ----------------------------------------------------------------
\* the calls download_files makes for a message after its free-space check
AfterCheck == {"get_progress_bar", "download_media", "delete_messages"}

\* C10: the free-space check is made for each message against the free
\* bytes of that moment: a progress bar is opened and download_media called
\* only for a message whose size fits the free bytes; otherwise the call
\* has failed with TelegramUploadNoSpaceError, with no bar, download or
\* delete for that message or any later one.
C10_SpaceCheckedPerMessage ==
    op = "download_files" =>
      /\ pc \in {"dl_progress_bar", "download_media"} =>
           history[messages[didx]].size <= free
      /\ exc = "TelegramUploadNoSpaceError" =>
           /\ pc = "raised"
           /\ history[messages[didx]].size > free
           /\ \A n \in didx..Len(messages) : \A k \in DOMAIN log :
                ~(log[k].ev \in AfterCheck /\ log[k].i = messages[n])
      /\ (pc = "raised" /\ exc # "TelegramUploadNoSpaceError") =>
           Called("download_media", messages[didx])

C10_Witness ==
    /\ op = "download_files" /\ pc = "raised"
    /\ exc = "TelegramUploadNoSpaceError"
    /\ didx = 2 /\ Len(messages) = 3
    /\ Called("download_media", messages[1])
    /\ history[messages[2]].size <= free + history[messages[1]].size

\* ---- C11 ----------------------------------------------------------------
\* C11: download_files calls delete_messages for a message only under
\* delete_on_success and only after download_media for that message
\* returned; a message whose download raised or whose free-space check
\* failed is never deleted.
C11_DeleteOnlyAfterSuccessfulDownload ==
    op = "download_files" =>
      /\ \A k \in DOMAIN log :
           log[k].ev = "delete_messages" =>
             /\ delete_on_success
             /\ Events("delete_messages", log[k].i) = {k}
             /\ \E n \in 1..didx : messages[n] = log[k].i
             /\ \E j \in 1..(k - 1) : log[j] = Ev("download_media", log[k].i, 0)
             /\ \E j \in 1..(k - 1) : log[j] = Ev("render_finish", log[k].i, 0)
      /\ pc = "delete_messages" =>
           exc = "none" /\ Called("download_media", messages[didx])
      /\ (pc \in {"dl_finally_bar", "raised"} /\ didx > 0
          /\ log # <<>> /\ log[Len(log)].ev # "delete_messages") =>
           ~Called("delete_messages", messages[didx])
      /\ exc = "TelegramUploadNoSpaceError" =>
           ~Called("delete_messages", messages[didx])

C11_Witness ==
    /\ op = "download_files" /\ pc = "raised" /\ exc = "ProtocolError"
    /\ delete_on_success /\ didx = 2
    /\ Called("delete_messages", messages[1])
    /\ Called("download_media", messages[2])
    /\ ~Called("delete_messages", messages[2])

\* ---- C16 ----------------------------------------------------------------
\* the destinations of the forward_messages calls made for file i, in call order
RECURSIVE Forwards(_, _)
Forwards(i, k) ==
    IF k = 0 THEN <<>>
    ELSE IF log[k].ev = "forward_messages" /\ log[k].i = i
           THEN Append(Forwards(i, k - 1), log[k].arg)
           ELSE Forwards(i, k - 1)

C16_ForwardInv ==
    op = "send_files" =>
      /\ \A i \in 1..idx :
           LET f == Forwards(i, Len(log)) IN
             /\ Len(f) <= Len(forward)
             /\ \A n \in 1..Len(f) : f[n] = forward[n]
             /\ (i < idx \/ pc \in {"for", "return"}) => f = forward
             /\ (i = idx /\ pc \in InUnit \cup {"raised"}) => Len(f) = fwd
      /\ \A k \in DOMAIN log :
           log[k].ev = "forward_messages" =>
             /\ \E j \in 1..(k - 1) : log[j] = Ev("send_file", log[k].i, 0)
             /\ print_file_id =>
                  \E j \in 1..(k - 1) :
                    log[j].ev \in {"echo_file_id", "echo_None"} /\ log[j].i = log[k].i
             /\ delete_on_success =>
                  \E j \in 1..(k - 1) : log[j] = Ev("remove_file", log[k].i, 0)
      /\ (exc # "none" /\ pc \notin {"finally_bar", "finally_thumb"}) => pc = "raised"

\* C16: after a confirmed upload send_files forwards the message once to
\* every destination of forward, in order, after the id report and the local
\* delete; a forward_messages call that raises is not caught: send_files is
\* left with that error, and no further destination or file is served.
C16_ForwardsInOrderAndPropagates ==
    /\ []C16_ForwardInv
    /\ [][(op = "send_files" /\ pc = "raised") => (pc' = pc /\ exc' = exc /\ log' = log)]_vars

C16_Witness ==
    /\ op = "send_files" /\ pc = "raised" /\ exc = "ProtocolError"
    /\ idx = 1 /\ Len(forward) = 2 /\ fwd = 1
    /\ log[Len(log)] = Ev("forward_messages", 1, forward[1])

\* ---- C17 ----------------------------------------------------------------
C17_HaltInv ==
    op = "send_files" =>
      /\ \A i \in 1..MaxFiles : Cardinality(Events("send_file", i)) <= 1
      /\ \A k \in DOMAIN log : log[k].i <= idx
      /\ exc \in {"ProtocolError", "TelegramUploadDataLoss"} =>
           pc \in {"finally_bar", "finally_thumb", "raised"}

\* C17: send_files halts on the first failure and never retries: once a
\* unit has failed the error stays the same until it leaves send_files, no
\* further send_file call is made and no further file is taken, and the
\* calls already made stay in the trace.
C17_HaltsOnFirstFailure ==
    /\ []C17_HaltInv
    /\ [][(op = "send_files" /\ exc # "none") =>
            /\ exc' = exc
            /\ idx' = idx
            /\ Len(log') >= Len(log)
            /\ SubSeq(log', 1, Len(log)) = log
            /\ \A k \in (Len(log) + 1)..Len(log') : log'[k].ev # "send_file"]_vars

C17_Witness ==
    /\ op = "send_files" /\ pc = "raised"
    /\ exc \in {"ProtocolError", "TelegramUploadDataLoss"}
    /\ idx = 1 /\ idx < MaxFiles
    /\ log[Len(log)].ev \in {"render_finish", "remove_thumb"}
    /\ Cardinality(Events("send_file", 1)) = 1

\* ---- C18 ----------------------------------------------------------------
\* C18: the completion line with a file id is echoed only when print_file_id
\* is set and pack_bot_file_id derives an id from the message's media.
C18_EchoOnlyWhenIdDerivable ==
    op = "send_files" =>
      \A k \in DOMAIN log :
        log[k].ev \in {"echo_file_id", "echo_None"} =>
          print_file_id /\ log[k].ev = "echo_file_id"

\* ---- C19 ----------------------------------------------------------------
\* C19: download_files consumes the whole find_files scan before its first
\* free-space check, download or delete: every iter_messages step precedes
\* every other call, and the scan is exhausted when the loop starts.
C19_ScanBeforeDownloads ==
    op = "download_files" =>
      /\ \A k \in DOMAIN log :
           log[k].ev = "iter_messages" =>
             \A j \in 1..(k - 1) : log[j].ev = "iter_messages"
      /\ pc = "list" =>
           /\ didx = 0 /\ messages = <<>>
           /\ \A k \in DOMAIN log : log[k].ev = "iter_messages"
      /\ pc # "list" =>
           \/ fetched = Len(history)
           \/ fetched > 0 /\ ~history[fetched].document

C19_Witness ==
    /\ op = "download_files" /\ delete_on_success
    /\ Len(yielded) = 2 /\ Len(history) > 2 /\ fetched = 3
    /\ Called("delete_messages", 1) /\ Called("delete_messages", 2)

\* ---- C12 ----------------------------------------------------------------
\* C12: send_files_as_album sends the input in groups, in order: the k-th
\* group starts right after the (k-1)-th, every group has between 1 and 10
\* files, every group but the last has exactly 10, together they are the
\* files taken from the input, and an empty input gives no group.
C12_AlbumGroupsPartitionInput ==
    op = "send_files_as_album" =>
      /\ \A k \in DOMAIN log :
           /\ log[k].ev = "_send_album"
           /\ log[k].arg >= 1 /\ log[k].arg <= 10
           /\ k < Len(log) => log[k].arg = 10
           /\ log[k].i = IF k = 1 THEN 1 ELSE log[k - 1].i + log[k - 1].arg
      /\ idx = IF log = <<>> THEN 0 ELSE log[Len(log)].i + log[Len(log)].arg - 1
      /\ (pc = "album_for" /\ log # <<>>) => log[Len(log)].arg = 10
      /\ idx = 0 => log = <<>> /\ exc = "none"

C12_Witness ==
    /\ op = "send_files_as_album" /\ pc = "return" /\ idx = 25
    /\ log = <<Ev("_send_album", 1, 10), Ev("_send_album", 11, 10), Ev("_send_album", 21, 5)>>

\* ---- C20 ----------------------------------------------------------------
\* C20: send_files_as_album makes no call but _send_album, whatever
\* delete_on_success, print_file_id and forward are, and an empty input
\* returns without MissingFileError.
C20_AlbumOnlySendsAlbums ==
    op = "send_files_as_album" =>
      /\ \A k \in DOMAIN log : log[k].ev = "_send_album"
      /\ exc \in {"none", "ProtocolError"}
      /\ exc = "ProtocolError" => log # <<>> /\ pc = "raised"
      /\ (pc = "return" /\ idx = 0) => log = <<>> /\ exc = "none"

C20_Witness ==
    /\ op = "send_files_as_album" /\ pc = "return" /\ exc = "none"
    /\ delete_on_success /\ print_file_id /\ Len(forward) = MaxForward
    /\ idx > ALBUM_FILES /\ Len(log) = 2

\* ---- C15 ----------------------------------------------------------------
\* C15: the caption passed to send_file is the explicit caption when given,
\* else the short name, unchanged when its length is at most 200; a longer
\* text becomes 200 characters: its first 197 followed by "...".
C15_CaptionTruncatedTo200 ==
    pc = "caption_done" =>
      LET text == IF caption.is_None THEN short_name ELSE caption.text IN
        /\ Len(file_caption) <= 200
        /\ Len(text) <= 200 => file_caption = text
        /\ Len(text) > 200 =>
             /\ Len(file_caption) = 200
             /\ \A k \in 1..197 : file_caption[k] = text[k]
             /\ \A k \in 198..200 : file_caption[k] = 0

C15_Witness ==
    /\ pc = "caption_done"
    /\ ~caption.is_None /\ Len(caption.text) = 210
    /\ Len(file_caption) = 200 /\ file_caption[197] = 197 /\ file_caption[200] = 0

\* ---- C13 ----------------------------------------------------------------
\* the schemes parse_proxy_string is to accept
SupportedSchemes == {<<"mtproxy">>, <<"http">>, <<"socks4">>, <<"socks5">>}

\* C13: parse_proxy_string fails with TelegramProxyError for every
\* non-empty string without a scheme, a hostname or a port and for every
\* string whose scheme is not mtproxy, http, socks4 or socks5; a returned
\* configuration carries the host and port of the string; the no-proxy
\* value is returned only for an absent or empty input.
C13_MalformedProxyRaisesProxyError ==
    (op = "parse_proxy_string" /\ pc # "parse") =>
      LET u == urlparse(proxy.text) IN
        /\ result.kind = "None" <=> (proxy.is_None \/ proxy.text = <<>>)
        /\ (/\ ~proxy.is_None /\ proxy.text # <<>>
            /\ \/ u.scheme = <<>> \/ u.hostname = <<>> \/ u.port_text = <<>>
               \/ u.scheme \notin SupportedSchemes) =>
             result.kind = "TelegramProxyError"
        /\ result.kind = "proxy" =>
             /\ result.type = u.scheme /\ u.scheme \in SupportedSchemes
             /\ result.hostname = u.hostname /\ u.hostname # <<>>
             /\ u.port_text = <<"1080">> /\ result.port = 1080

\* ---- C14 ----------------------------------------------------------------
\* the value of the first environment variable present, in the order
\* TELEGRAM_UPLOAD_PROXY, HTTPS_PROXY, HTTP_PROXY; None when none is present
FirstPresent ==
    IF ~environ[1].is_None THEN environ[1]
    ELSE IF ~environ[2].is_None THEN environ[2]
    ELSE environ[3]

\* C14: Client.__init__ uses the explicit proxy when one is given, without
\* looking at the environment; otherwise the value of the first variable
\* present in the order TELEGRAM_UPLOAD_PROXY, HTTPS_PROXY, HTTP_PROXY; and
\* with none present the result is no proxy.
C14_ProxySourceSelection ==
    [][(op = "Client.__init__") =>
         /\ pc = "select" =>
              /\ ~proxy.is_None => (proxy' = proxy /\ log' = log)
              /\ proxy.is_None => proxy' = FirstPresent
         /\ (pc = "parse" /\ proxy.is_None) => result'.kind = "None"
         /\ pc = "parse" => proxy' = proxy]_vars

C14_Witness ==
    /\ op = "Client.__init__" /\ pc = "return"
    /\ environ[1].is_None /\ ~environ[2].is_None /\ ~environ[3].is_None
    /\ environ[2] # environ[3]
    /\ proxy = environ[2] /\ result.kind = "proxy" /\ result.type = <<"mtproxy">>

====
